---------------------------- MODULE Spec2Model ----------------------------
(***************************************************************************)
(* CK Assistant (ck_assistant_py): the tool-calling loop of                *)
(* gemini_interaction.respond_to_prompt, the template client               *)
(* (template_exchange_client.get_template / create_template) and the       *)
(* prompt loop of main.main, as a state machine.                           *)
(*                                                                         *)
(* Python values are modelled as follows.  None is the string None (what   *)
(* an f-string prints for it); a dict key that is not present holds        *)
(* Absent; an exception is a record naming its class and carrying its      *)
(* message; a message built by an f-string is the tuple of its pieces.     *)
(* A protobuf Part has every field: a field that is not set reads as its   *)
(* default (empty text, a function_call with an empty name).               *)
(***************************************************************************)
EXTENDS Integers, Sequences, FiniteSets, TLC

VARIABLES
    pc,                         \* position in main / respond_to_prompt
    user_input,                 \* main: the prompt handed to respond_to_prompt
    chat,                       \* the ChatSession: messages sent to the agent, in order
    response,                   \* the agent's latest turn: its sequence of parts
    function_call,              \* the function call the loop body is handling
    function_response_content,  \* the dict sent back as the FunctionResponse
    http_log,                   \* requests made to the template service, in order
    http_response,              \* what the latest request to the service got
    client_result,              \* how the latest client call ended (return / raise)
    return_value,               \* what respond_to_prompt returned
    exc,                        \* the exception respond_to_prompt raised
    rounds,                     \* loop iterations of this interaction
    dispatched,                 \* function calls handled since the latest turn arrived
    agent_failed,               \* a call to the agent raised in this interaction
    config,                     \* the environment: the value of each configuration variable
    output,                     \* the latest message the program printed
    error_reported              \* main has reported the error of an interaction

vars == <<pc, user_input, chat, response, function_call,
          function_response_content, http_log, http_response, client_result,
          return_value, exc, rounds, dispatched, agent_failed, config, output,
          error_reported>>

-----------------------------------------------------------------------------
(* Bounds of the model *)

MaxRounds == 2          \* tool-call round trips explored per interaction

-----------------------------------------------------------------------------
(* Python values *)

None == "None"
Absent == "<absent>"

\* dict.get(key, default): the default only when the key is not present
Get(d, key, default) == IF d[key] = Absent THEN default ELSE d[key]

-----------------------------------------------------------------------------
(* template_exchange_client: exceptions *)

\* the classes an exception is an instance of
Bases(cls) ==
    CASE cls = "TemplateNotFoundError" ->
            {"TemplateNotFoundError", "TemplateAPIError", "Exception"}
      [] cls = "TemplateAuthenticationError" ->
            {"TemplateAuthenticationError", "TemplateAPIError", "Exception"}
      [] cls = "TemplateAPIError" -> {"TemplateAPIError", "Exception"}
      [] OTHER -> {cls, "Exception"}

Raise(cls, msg) == [kind |-> "raise", cls |-> cls, msg |-> msg, value |-> None]
Return(v) == [kind |-> "return", cls |-> None, msg |-> <<>>, value |-> v]
NoResult == [kind |-> "none", cls |-> None, msg |-> <<>>, value |-> None]

-----------------------------------------------------------------------------
(* The template service, seen from the client: one HTTP exchange *)

HTTP_OK == 200
HTTP_CREATED == 201
HTTP_UNAUTHORIZED == 401
HTTP_NOT_FOUND == 404

\* bodies the service sends, and what response.json() decodes them to
JsonBodies == {"{\"sessionId\": \"M5.S4\", \"content\": \"Done.\"}"}
TextBodies == {"Internal Server Error"}
Json(text) ==
    CASE text = "{\"sessionId\": \"M5.S4\", \"content\": \"Done.\"}" ->
            "dict(sessionId=M5.S4, content=Done.)"
      [] OTHER -> Absent           \* not JSON: response.json() raises

\* return response.json()
ReturnJson(r) ==
    IF Json(r.text) = Absent
    THEN Raise("JSONDecodeError", <<"Expecting value">>)
    ELSE Return(Json(r.text))

\* requests.get / requests.post did not get a response at all
ConnectionFailure == [status_code |-> 0, text |-> "", failed |-> TRUE]
HttpResponse(s, b) == [status_code |-> s, text |-> b, failed |-> FALSE]
NoHttp == [status_code |-> 0, text |-> "", failed |-> FALSE]

\* The statuses the service is explored with, and what it may answer: a 200
\* or 201 carries a JSON body (the client's "Returns: A dictionary"), any
\* other status carries either kind of body.
StatusSample == {HTTP_OK, HTTP_CREATED, HTTP_UNAUTHORIZED, HTTP_NOT_FOUND}
ServiceResponses ==
    {HttpResponse(s, b) : s \in {HTTP_OK, HTTP_CREATED}, b \in JsonBodies}
    \cup {HttpResponse(s, b) : s \in StatusSample \ {HTTP_OK, HTTP_CREATED},
                               b \in TextBodies}
    \cup {ConnectionFailure}

-----------------------------------------------------------------------------
(* template_exchange_client.get_template *)

NoPayload ==
    [sessionId |-> Absent, type |-> Absent, content |-> Absent,
     status |-> Absent, metadata |-> Absent]

GetRequest(session_id, template_type) ==
    [method |-> "GET",
     url |-> <<"/api/templates/", session_id>>,
     params |-> [type |-> template_type],
     json |-> NoPayload]

\* (variant) a request that got no response is made once more
get_template_requests_Retry(session_id, template_type, r) ==
    IF r.failed
    THEN <<GetRequest(session_id, template_type), GetRequest(session_id, template_type)>>
    ELSE <<GetRequest(session_id, template_type)>>

\* line 45: the requests one call of get_template makes, whatever the response
get_template_requests(session_id, template_type, r) ==
    <<GetRequest(session_id, template_type)>>

\* (variant) the 404 branch is missing
get_template_No404(session_id, template_type, r) ==
    IF r.failed THEN Raise("ConnectionError", <<"connection failed">>)
    ELSE IF r.status_code = HTTP_OK THEN ReturnJson(r)
    ELSE IF r.status_code = HTTP_UNAUTHORIZED THEN
        Raise("TemplateAuthenticationError", <<"Authentication failed. Check API key.">>)
    ELSE
        Raise("TemplateAPIError",
              <<"API request failed with status ", ToString(r.status_code), ": ", r.text>>)

get_template(session_id, template_type, r) ==
    IF r.failed THEN Raise("ConnectionError", <<"connection failed">>)
    ELSE IF r.status_code = HTTP_OK THEN ReturnJson(r)
    ELSE IF r.status_code = HTTP_NOT_FOUND THEN
        Raise("TemplateNotFoundError",
              <<"No ", template_type, " template found for session ", session_id>>)
    ELSE IF r.status_code = HTTP_UNAUTHORIZED THEN
        Raise("TemplateAuthenticationError", <<"Authentication failed. Check API key.">>)
    ELSE
        Raise("TemplateAPIError",
              <<"API request failed with status ", ToString(r.status_code), ": ", r.text>>)

-----------------------------------------------------------------------------
(* template_exchange_client.create_template *)

\* (variant) the metadata key is always written
Payload_AlwaysMetadata(session_id, template_type, content, status, metadata) ==
    [sessionId |-> session_id, type |-> template_type, content |-> content,
     status |-> status, metadata |-> metadata]

Payload(session_id, template_type, content, status, metadata) ==
    [sessionId |-> session_id, type |-> template_type, content |-> content,
     status |-> status,
     metadata |-> IF metadata # None THEN metadata ELSE Absent]

PostRequest(session_id, template_type, content, status, metadata) ==
    [method |-> "POST",
     url |-> <<"/api/templates">>,
     params |-> [type |-> Absent],
     json |-> Payload(session_id, template_type, content, status, metadata)]

\* line 80: the requests one call of create_template makes, whatever the response
create_template_requests(session_id, template_type, content, status, metadata, r) ==
    <<PostRequest(session_id, template_type, content, status, metadata)>>

\* (variant) a 404 is reported as on the read path
create_template_With404(r) ==
    IF r.failed THEN Raise("ConnectionError", <<"connection failed">>)
    ELSE IF r.status_code = HTTP_CREATED THEN ReturnJson(r)
    ELSE IF r.status_code = HTTP_NOT_FOUND THEN
        Raise("TemplateNotFoundError", <<"No template found">>)
    ELSE IF r.status_code = HTTP_UNAUTHORIZED THEN
        Raise("TemplateAuthenticationError", <<"Authentication failed. Check API key.">>)
    ELSE
        Raise("TemplateAPIError",
              <<"API request failed with status ", ToString(r.status_code), ": ", r.text>>)

create_template(r) ==
    IF r.failed THEN Raise("ConnectionError", <<"connection failed">>)
    ELSE IF r.status_code = HTTP_CREATED THEN ReturnJson(r)
    ELSE IF r.status_code = HTTP_UNAUTHORIZED THEN
        Raise("TemplateAuthenticationError", <<"Authentication failed. Check API key.">>)
    ELSE
        Raise("TemplateAPIError",
              <<"API request failed with status ", ToString(r.status_code), ": ", r.text>>)

-----------------------------------------------------------------------------
(* The agent's turns (google.ai.generativelanguage Part, FunctionCall) *)

NoArgs ==
    [session_id |-> Absent, template_type |-> Absent, content |-> Absent,
     status |-> Absent, metadata |-> Absent]
NoCall == [name |-> "", args |-> NoArgs]

TextPart(t) == [text |-> t, function_call |-> NoCall, other |-> FALSE]
CallPart(c) == [text |-> "", function_call |-> c, other |-> FALSE]
OtherPart   == [text |-> "", function_call |-> NoCall, other |-> TRUE]

GetCalls ==
    {[name |-> "get_template", args |-> a] : a \in
        {[NoArgs EXCEPT !.session_id = "M5.S4", !.template_type = "summary"],
         [NoArgs EXCEPT !.session_id = "M5.S4"]}}
CreateCalls ==
    {[name |-> "create_template", args |-> a] : a \in
        {[session_id |-> "M5.S4", template_type |-> "summary", content |-> "Done.",
          status |-> "active", metadata |-> "{'tags': ['x']}"],
         [NoArgs EXCEPT !.session_id = "M5.S4", !.template_type = "summary",
                        !.content = "Done."],
         [NoArgs EXCEPT !.metadata = None]}}
UnknownCalls ==
    {[name |-> "delete_template", args |-> [NoArgs EXCEPT !.session_id = "M5.S4"]]}
Calls == GetCalls \cup CreateCalls \cup UnknownCalls

FirstGet == [name |-> "get_template", args |-> [NoArgs EXCEPT !.session_id = "M5.S4"]]
FirstCreate ==
    [name |-> "create_template",
     args |-> [NoArgs EXCEPT !.session_id = "M5.S4", !.template_type = "summary",
                             !.content = "Done."]]

\* the turns the agent is explored with
Turns ==
    {<<>>, <<TextPart("Not found.")>>, <<TextPart("Saved "), TextPart("M5.S4")>>,
     <<TextPart("")>>, <<OtherPart>>}
    \cup {<<CallPart(c)>> : c \in Calls}
    \cup {<<TextPart("Let me check. "), CallPart(FirstGet)>>,
          <<CallPart(FirstGet), TextPart("Fetching.")>>,
          <<CallPart(FirstGet), CallPart(FirstCreate)>>,
          <<CallPart(FirstCreate), CallPart(FirstGet)>>}

\* the function calls a turn carries, in part order
RECURSIVE FunctionCalls(_)
FunctionCalls(parts) ==
    IF parts = <<>> THEN <<>>
    ELSE (IF Head(parts).function_call.name # ""
          THEN <<Head(parts).function_call>> ELSE <<>>)
         \o FunctionCalls(Tail(parts))

-----------------------------------------------------------------------------
(* gemini_interaction.respond_to_prompt: the pieces of the loop *)

\* while response.candidates[0].content.parts and hasattr(parts[0], 'function_call')
\*       and parts[0].function_call.name   (a Part always has the attribute)
WhileCondition(parts) ==
    /\ Len(parts) > 0
    /\ parts[1].function_call.name # ""

\* (variant) the base class is tried before its subclasses
GetTemplateExcepts_BaseFirst ==
    << [cls |-> "TemplateAPIError",            type |-> "APIFailure"],
       [cls |-> "TemplateNotFoundError",       type |-> "TemplateNotFound"],
       [cls |-> "TemplateAuthenticationError", type |-> "AuthenticationError"],
       [cls |-> "Exception",                   type |-> "ClientExecutionError"] >>

\* (variant) only the client's own exceptions are caught
CreateTemplateExcepts_NoCatchAll ==
    << [cls |-> "TemplateAuthenticationError", type |-> "AuthenticationError"],
       [cls |-> "TemplateAPIError",            type |-> "APIFailure"] >>

\* the except clauses of the two try statements, in source order
GetTemplateExcepts ==
    << [cls |-> "TemplateNotFoundError",       type |-> "TemplateNotFound"],
       [cls |-> "TemplateAuthenticationError", type |-> "AuthenticationError"],
       [cls |-> "TemplateAPIError",            type |-> "APIFailure"],
       [cls |-> "Exception",                   type |-> "ClientExecutionError"] >>

CreateTemplateExcepts ==
    << [cls |-> "TemplateAuthenticationError", type |-> "AuthenticationError"],
       [cls |-> "TemplateAPIError",            type |-> "APIFailure"],
       [cls |-> "Exception",                   type |-> "ClientExecutionError"] >>

NoContent == [keys |-> {}, result |-> None, error |-> <<>>, type |-> Absent]
ResultContent(v) == [keys |-> {"result"}, result |-> v, error |-> <<>>, type |-> Absent]
ErrorContent(msg, type) ==
    [keys |-> {"error", "type"}, result |-> None, error |-> msg, type |-> type]
UnknownFunctionContent(function_name) ==
    [keys |-> {"error"}, result |-> None,
     error |-> <<"Function ", function_name, " is not implemented or recognized.">>,
     type |-> Absent]

\* the clauses that match the exception; the first one handles it
Matching(r, clauses) == {i \in 1..Len(clauses) : clauses[i].cls \in Bases(r.cls)}
FirstMatching(r, clauses) ==
    CHOOSE i \in Matching(r, clauses) : \A j \in Matching(r, clauses) : i <= j

\* try: content = {"result": client(...)}  except ...: content = {"error": ..., "type": ...}
\* propagates: no clause matched, the exception leaves the try statement
Try(r, clauses, function_name) ==
    IF r.kind = "return" THEN
        [propagates |-> FALSE, cls |-> None, content |-> ResultContent(r.value)]
    ELSE IF Matching(r, clauses) = {} THEN
        [propagates |-> TRUE, cls |-> r.cls, content |-> NoContent]
    ELSE LET c == clauses[FirstMatching(r, clauses)] IN
        [propagates |-> FALSE, cls |-> None,
         content |-> IF c.cls = "Exception"
                     THEN ErrorContent(<<"Unexpected error calling ", function_name, ": ">>
                                         \o r.msg, c.type)
                     ELSE ErrorContent(r.msg, c.type)]

\* the body of the loop up to the send: what is requested of the service (at
\* most one request), how the client call ends, and the content to send back
\* (variant) template_type is read without its default
HandleGetTemplate_NoDefault(args, r) ==
    LET session_id == Get(args, "session_id", None)
        template_type == Get(args, "template_type", None)
        res == get_template(session_id, template_type, r)
    IN [requests |-> get_template_requests(session_id, template_type, r),
        client |-> res,
        try |-> Try(res, GetTemplateExcepts, "get_template")]

HandleGetTemplate(args, r) ==
    LET session_id == Get(args, "session_id", None)
        template_type == Get(args, "template_type", "handoff")
        res == get_template(session_id, template_type, r)
    IN [requests |-> get_template_requests(session_id, template_type, r),
        client |-> res,
        try |-> Try(res, GetTemplateExcepts, "get_template")]

\* (variant) a call without content is refused before the client is called
HandleCreateTemplate_Validating(args, r) ==
    LET session_id == Get(args, "session_id", None)
        template_type == Get(args, "template_type", None)
        content == Get(args, "content", None)
        status == Get(args, "status", "draft")
        metadata == Get(args, "metadata", None)
        res == create_template(r)
    IN IF content = None
       THEN [requests |-> <<>>,
             client |-> NoResult,
             try |-> [propagates |-> FALSE, cls |-> None,
                      content |-> ErrorContent(<<"content is required">>,
                                               "ClientExecutionError")]]
       ELSE [requests |-> create_template_requests(session_id, template_type,
                                                   content, status, metadata, r),
             client |-> res,
             try |-> Try(res, CreateTemplateExcepts, "create_template")]

HandleCreateTemplate(args, r) ==
    LET session_id == Get(args, "session_id", None)
        template_type == Get(args, "template_type", None)
        content == Get(args, "content", None)
        status == Get(args, "status", "draft")
        metadata == Get(args, "metadata", None)
        res == create_template(r)
    IN [requests |-> create_template_requests(session_id, template_type, content,
                                              status, metadata, r),
        client |-> res,
        try |-> Try(res, CreateTemplateExcepts, "create_template")]

HandleUnknown(function_name) ==
    [requests |-> <<>>,
     client |-> NoResult,
     try |-> [propagates |-> FALSE, cls |-> None,
              content |-> UnknownFunctionContent(function_name)]]

HandleFunctionCall(fc, r) ==
    IF fc.name = "get_template" THEN HandleGetTemplate(fc.args, r)
    ELSE IF fc.name = "create_template" THEN HandleCreateTemplate(fc.args, r)
    ELSE HandleUnknown(fc.name)

\* "".join(part.text for part in response.parts if hasattr(part, 'text'))
RECURSIVE JoinText(_)
JoinText(parts) ==
    IF parts = <<>> THEN "" ELSE Head(parts).text \o JoinText(Tail(parts))

FALLBACK ==
    "Model did not provide a final text response after handling potential function calls."

\* What reading response.text does on a reply without parts.  The accessor
\* belongs to the google.generativeai response object: it may raise
\* ValueError (hasattr lets everything but AttributeError through), the
\* attribute may be missing, or it may hold a falsy value.
TextAccess == {"raises", "missing", "falsy"}

\* lines 172-184: the value respond_to_prompt returns, or the exception raised
FinalText(parts, access) ==
    IF Len(parts) > 0 THEN Return(JoinText(parts))
    ELSE IF access = "raises" THEN Raise("ValueError", <<"response.text requires a Part">>)
    ELSE Return(FALLBACK)

-----------------------------------------------------------------------------
(* The messages sent to the agent *)

NoMessage == [kind |-> "none", text |-> "", name |-> "", response |-> NoContent]
TextMessage(t) == [kind |-> "text", text |-> t, name |-> "", response |-> NoContent]
\* Part(function_response=FunctionResponse(name=function_name, response=content))
FunctionResponse(function_name, content) ==
    [kind |-> "function_response", text |-> "", name |-> function_name,
     response |-> content]

-----------------------------------------------------------------------------
(* main.main: the lines read by input() *)

Prompts == {"fetch the handoff for session M5.S4"}
Lines == Prompts \cup {"", "   ", "quit", " EXIT "}
Strip(s) == CASE s = "   " -> "" [] s = " EXIT " -> "EXIT" [] OTHER -> s
Lower(s) == CASE s = "EXIT" -> "exit" [] OTHER -> s

QuitCommands == {"quit", "exit"}
GOODBYE == "Exiting CK Assistant. Goodbye!"
INTERRUPTED == "CK Assistant interrupted. Exiting. Goodbye!"
THINKING == "CKA is thinking..."
ResponseReport(response_text) == <<"CKA Response:", response_text>>
ErrorReport(e) == <<"An unexpected error occurred during interaction: ", e>>

-----------------------------------------------------------------------------
(* config_loader: the three required values, read when the module is imported *)

ConfigKeys ==
    <<"GEMINI_API_KEY", "TEMPLATE_EXCHANGE_API_KEY", "TEMPLATE_EXCHANGE_API_BASE_URL">>
ConfigNames == {ConfigKeys[i] : i \in DOMAIN ConfigKeys}
\* a variable is not set, set to the empty string, or set to a value
EnvValues == {Absent, "", "set"}
Environments == [ConfigNames -> EnvValues]
Configured == [k \in ConfigNames |-> "set"]
\* os.getenv gives None for a variable not set; `not X` holds for None and ""
Truthy(v) == v \notin {Absent, None, ""}
NotFound(k) == <<k, " not found in environment variables or .env file.">>

\* (variant) the base URL is not checked
config_loader_NoBaseUrlCheck(env) ==
    IF ~Truthy(env[ConfigKeys[1]]) THEN Raise("EnvironmentError", NotFound(ConfigKeys[1]))
    ELSE IF ~Truthy(env[ConfigKeys[2]]) THEN Raise("EnvironmentError", NotFound(ConfigKeys[2]))
    ELSE Return(env)

\* lines 27-37: each value in turn, the first one missing raises
config_loader(env) ==
    IF ~Truthy(env[ConfigKeys[1]]) THEN Raise("EnvironmentError", NotFound(ConfigKeys[1]))
    ELSE IF ~Truthy(env[ConfigKeys[2]]) THEN Raise("EnvironmentError", NotFound(ConfigKeys[2]))
    ELSE IF ~Truthy(env[ConfigKeys[3]]) THEN Raise("EnvironmentError", NotFound(ConfigKeys[3]))
    ELSE Return(env)

-----------------------------------------------------------------------------
(* The state machine *)

Init ==
    /\ pc = "import"
    /\ config \in Environments
    /\ output = <<>>
    /\ error_reported = FALSE
    /\ user_input = ""
    /\ chat = <<>>
    /\ response = <<>>
    /\ function_call = NoCall
    /\ function_response_content = NoContent
    /\ http_log = <<>>
    /\ http_response = NoHttp
    /\ client_result = NoResult
    /\ return_value = None
    /\ exc = None
    /\ rounds = 0
    /\ dispatched = <<>>
    /\ agent_failed = FALSE

\* main.py, lines 10-11: the imports run config_loader (gemini_interaction
\* imports it first).  Its EnvironmentError is raised before main() is
\* called: the interpreter prints it and the program is over.
ImportModules ==
    /\ pc = "import"
    /\ LET loaded == config_loader(config) IN
       IF loaded.kind = "raise"
       THEN pc' = "crashed" /\ exc' = loaded.cls /\ output' = loaded.msg
       ELSE pc' = "main" /\ exc' = None /\ output' = <<>>
    /\ UNCHANGED <<user_input, chat, response, function_call,
                   function_response_content, http_log, http_response,
                   client_result, return_value, rounds, dispatched,
                   agent_failed, config, error_reported>>

\* main, lines 14-37: the banner and the check of config_loader.GEMINI_API_KEY
MainStart ==
    /\ pc = "main"
    /\ IF ~Truthy(config["GEMINI_API_KEY"])
       THEN /\ pc' = "exited"
            /\ output' = <<"FATAL CONFIGURATION ERROR: ",
                           "GEMINI_API_KEY is not set in the environment or .env file.">>
       ELSE /\ pc' = "input"
            /\ output' = <<"Configuration loaded successfully.">>
    /\ UNCHANGED <<user_input, chat, response, function_call,
                   function_response_content, http_log, http_response,
                   client_result, return_value, exc, rounds, dispatched,
                   agent_failed, config, error_reported>>

\* main, line 42-50: read a line; skip an empty one, leave on quit / exit,
\* otherwise call respond_to_prompt.  The locals of respond_to_prompt are
\* new in every call; chat keeps naming the session created last until
\* start_chat creates the next one.
MainInput ==
    /\ pc = "input"
    /\ \E line \in Lines :
        LET stripped == Strip(line) IN
        /\ user_input' = stripped
        /\ IF stripped = "" THEN
               /\ pc' = "input"
               /\ UNCHANGED <<chat, response, function_call, function_response_content,
                              http_log, http_response, client_result, return_value,
                              exc, rounds, dispatched, agent_failed, output>>
           ELSE IF Lower(stripped) \in QuitCommands THEN
               /\ pc' = "exited"
               /\ output' = <<GOODBYE>>
               /\ UNCHANGED <<chat, response, function_call, function_response_content,
                              http_log, http_response, client_result, return_value,
                              exc, rounds, dispatched, agent_failed>>
           ELSE
               /\ pc' = "start_chat"
               /\ output' = <<THINKING>>
               /\ response' = <<>>
               /\ function_call' = NoCall
               /\ function_response_content' = NoContent
               /\ http_log' = <<>>
               /\ http_response' = NoHttp
               /\ client_result' = NoResult
               /\ return_value' = None
               /\ exc' = None
               /\ rounds' = 0
               /\ dispatched' = <<>>
               /\ agent_failed' = FALSE
               /\ UNCHANGED chat
    /\ UNCHANGED <<config, error_reported>>

\* main, lines 57-59: end of input at the prompt
MainEndOfInput ==
    /\ pc = "input"
    /\ pc' = "exited"
    /\ output' = <<GOODBYE>>
    /\ UNCHANGED <<user_input, chat, response, function_call,
                   function_response_content, http_log, http_response,
                   client_result, return_value, exc, rounds, dispatched,
                   agent_failed, config, error_reported>>

\* main, lines 60-62: an interrupt while the program waits for the user or
\* for the agent; respond_to_prompt's `except Exception` does not catch it
MainInterrupt ==
    /\ pc \in {"input", "awaiting"}
    /\ pc' = "exited"
    /\ output' = <<INTERRUPTED>>
    /\ UNCHANGED <<user_input, chat, response, function_call,
                   function_response_content, http_log, http_response,
                   client_result, return_value, exc, rounds, dispatched,
                   agent_failed, config, error_reported>>

\* (variant) the session of the previous call is used again
StartChat_ReuseSession ==
    /\ pc = "start_chat"
    /\ chat' = chat
    /\ \/ pc' = "send_prompt" /\ exc' = None /\ agent_failed' = FALSE
       \/ pc' = "raised" /\ exc' = "AgentError" /\ agent_failed' = TRUE
    /\ UNCHANGED <<user_input, response, function_call, function_response_content,
                   http_log, http_response, client_result, return_value, rounds,
                   dispatched>>
    /\ UNCHANGED <<config, output, error_reported>>

\* line 96: chat = MODEL.start_chat()
StartChat ==
    /\ pc = "start_chat"
    /\ chat' = <<>>
    /\ \/ pc' = "send_prompt" /\ exc' = None /\ agent_failed' = FALSE
       \/ pc' = "raised" /\ exc' = "AgentError" /\ agent_failed' = TRUE
    /\ UNCHANGED <<user_input, response, function_call, function_response_content,
                   http_log, http_response, client_result, return_value, rounds,
                   dispatched>>
    /\ UNCHANGED <<config, output, error_reported>>

\* line 97: chat.send_message(user_prompt), the message goes out
SendPrompt ==
    /\ pc = "send_prompt"
    /\ chat' = Append(chat, TextMessage(user_input))
    /\ pc' = "awaiting"
    /\ UNCHANGED <<user_input, response, function_call, function_response_content,
                   http_log, http_response, client_result, return_value, exc,
                   rounds, dispatched, agent_failed>>
    /\ UNCHANGED <<config, output, error_reported>>

\* (variant) a failed send_message is sent once more
AgentReply_Retry ==
    /\ pc = "awaiting"
    /\ \/ /\ \E turn \in Turns : response' = turn
          /\ pc' = "loop" /\ exc' = None /\ dispatched' = <<>>
          /\ agent_failed' = agent_failed /\ chat' = chat
       \/ /\ ~agent_failed
          /\ response' = response
          /\ pc' = "awaiting" /\ exc' = None /\ dispatched' = dispatched
          /\ agent_failed' = TRUE /\ chat' = Append(chat, chat[Len(chat)])
    /\ UNCHANGED <<user_input, function_call, function_response_content,
                   http_log, http_response, client_result, return_value, rounds>>
    /\ UNCHANGED <<config, output, error_reported>>

\* (variant) when the agent fails after a write, the write is taken back
AgentReply_Rollback ==
    /\ pc = "awaiting"
    /\ \/ /\ \E turn \in Turns : response' = turn
          /\ pc' = "loop" /\ exc' = None /\ dispatched' = <<>>
          /\ agent_failed' = FALSE
          /\ http_log' = http_log
       \/ /\ response' = response
          /\ pc' = "raised" /\ exc' = "AgentError" /\ dispatched' = dispatched
          /\ agent_failed' = TRUE
          /\ http_log' =
                IF http_log # <<>> /\ http_log[Len(http_log)].method = "POST"
                THEN Append(http_log,
                            [http_log[Len(http_log)] EXCEPT !.method = "DELETE"])
                ELSE http_log
    /\ UNCHANGED <<user_input, chat, function_call, function_response_content,
                   http_response, client_result, return_value, rounds>>
    /\ UNCHANGED <<config, output, error_reported>>

\* lines 97 and 164: send_message returns the agent's turn, or raises
AgentReply ==
    /\ pc = "awaiting"
    /\ \/ /\ \E turn \in Turns : response' = turn
          /\ pc' = "loop" /\ exc' = None /\ dispatched' = <<>>
          /\ agent_failed' = FALSE
       \/ /\ response' = response
          /\ pc' = "raised" /\ exc' = "AgentError" /\ dispatched' = dispatched
          /\ agent_failed' = TRUE
    /\ UNCHANGED <<user_input, chat, function_call, function_response_content,
                   http_log, http_response, client_result, return_value, rounds>>
    /\ UNCHANGED <<config, output, error_reported>>

\* lines 101-107: the loop test; on entry the first part's function call is taken
LoopTest ==
    /\ pc = "loop"
    /\ IF WhileCondition(response) THEN
           /\ rounds < MaxRounds
           /\ pc' = "body"
           /\ function_call' = response[1].function_call
           /\ rounds' = rounds + 1
       ELSE
           /\ pc' = "final"
           /\ UNCHANGED <<function_call, rounds>>
    /\ UNCHANGED <<user_input, chat, response, function_response_content,
                   http_log, http_response, client_result, return_value, exc,
                   dispatched, agent_failed>>
    /\ UNCHANGED <<config, output, error_reported>>

\* lines 111-161: dispatch on the function name
Dispatch ==
    /\ pc = "body"
    /\ \E r \in ServiceResponses :
        LET h == HandleFunctionCall(function_call, r) IN
        /\ http_log' = http_log \o h.requests
        /\ http_response' = IF h.requests = <<>> THEN NoHttp ELSE r
        /\ client_result' = h.client
        /\ function_response_content' = h.try.content
        /\ IF h.try.propagates
           THEN pc' = "raised" /\ exc' = h.try.cls
           ELSE pc' = "send" /\ exc' = None
    /\ dispatched' = Append(dispatched, function_call)
    /\ UNCHANGED <<user_input, chat, response, function_call, return_value,
                   rounds, agent_failed>>
    /\ UNCHANGED <<config, output, error_reported>>

\* (variant) the function response does not name its function
SendFunctionResponse_Untagged ==
    /\ pc = "send"
    /\ chat' = Append(chat, FunctionResponse("", function_response_content))
    /\ pc' = "awaiting"
    /\ UNCHANGED <<user_input, response, function_call, function_response_content,
                   http_log, http_response, client_result, return_value, exc,
                   rounds, dispatched, agent_failed>>
    /\ UNCHANGED <<config, output, error_reported>>

\* lines 164-169: the function response goes out
SendFunctionResponse ==
    /\ pc = "send"
    /\ chat' = Append(chat, FunctionResponse(function_call.name,
                                             function_response_content))
    /\ pc' = "awaiting"
    /\ UNCHANGED <<user_input, response, function_call, function_response_content,
                   http_log, http_response, client_result, return_value, exc,
                   rounds, dispatched, agent_failed>>
    /\ UNCHANGED <<config, output, error_reported>>

\* lines 172-184: the final text
Finish ==
    /\ pc = "final"
    /\ \E access \in TextAccess :
        LET f == FinalText(response, access) IN
        IF f.kind = "return"
        THEN pc' = "done" /\ return_value' = f.value /\ exc' = None
        ELSE pc' = "raised" /\ return_value' = None /\ exc' = f.cls
    /\ UNCHANGED <<user_input, chat, response, function_call,
                   function_response_content, http_log, http_response,
                   client_result, rounds, dispatched, agent_failed>>
    /\ UNCHANGED <<config, output, error_reported>>

\* main, lines 50-55: the response is printed, back to the prompt
MainPrintResponse ==
    /\ pc = "done"
    /\ pc' = "input"
    /\ UNCHANGED <<user_input, chat, response, function_call,
                   function_response_content, http_log, http_response,
                   client_result, return_value, exc, rounds, dispatched,
                   agent_failed>>
    /\ output' = ResponseReport(return_value)
    /\ UNCHANGED <<config, error_reported>>

\* (variant) an error of an interaction ends the program
MainReportError_Exits ==
    /\ pc = "raised"
    /\ pc' = "exited"
    /\ UNCHANGED <<user_input, chat, response, function_call,
                   function_response_content, http_log, http_response,
                   client_result, return_value, exc, rounds, dispatched,
                   agent_failed>>
    /\ output' = ErrorReport(exc)
    /\ error_reported' = TRUE
    /\ UNCHANGED config

\* main, lines 63-68: the error is reported, back to the prompt
MainReportError ==
    /\ pc = "raised"
    /\ pc' = "input"
    /\ UNCHANGED <<user_input, chat, response, function_call,
                   function_response_content, http_log, http_response,
                   client_result, return_value, exc, rounds, dispatched,
                   agent_failed>>
    /\ output' = ErrorReport(exc)
    /\ error_reported' = TRUE
    /\ UNCHANGED config

Next ==
    \/ ImportModules
    \/ MainStart
    \/ MainInput
    \/ MainEndOfInput
    \/ MainInterrupt
    \/ StartChat
    \/ SendPrompt
    \/ AgentReply
    \/ LoopTest
    \/ Dispatch
    \/ SendFunctionResponse
    \/ Finish
    \/ MainPrintResponse
    \/ MainReportError

Spec == Init /\ [][Next]_vars

-----------------------------------------------------------------------------
(* The template client alone: every status the service can answer with *)

HttpStatusCodes == 100..599
ClientSessions == {"M5.S4", None}
ClientTypes == {"handoff", "summary"}
ClientResponses ==
    {HttpResponse(s, b) : s \in {HTTP_OK, HTTP_CREATED}, b \in JsonBodies}
    \cup {HttpResponse(s, b) : s \in HttpStatusCodes \ {HTTP_OK, HTTP_CREATED},
                               b \in JsonBodies \cup TextBodies}
    \cup {ConnectionFailure}

ClientInit ==
    /\ pc = "client"
    /\ config = Configured
    /\ output = <<>>
    /\ error_reported = FALSE
    /\ user_input = ""
    /\ chat = <<>>
    /\ response = <<>>
    /\ function_call = NoCall
    /\ function_response_content = NoContent
    /\ http_log = <<>>
    /\ http_response = NoHttp
    /\ client_result = NoResult
    /\ return_value = None
    /\ exc = None
    /\ rounds = 0
    /\ dispatched = <<>>
    /\ agent_failed = FALSE

\* one call of get_template(session_id, template_type)
ClientGetTemplate ==
    /\ pc = "client"
    /\ \E session_id \in ClientSessions, template_type \in ClientTypes,
          r \in ClientResponses :
        /\ http_log' = get_template_requests(session_id, template_type, r)
        /\ http_response' = r
        /\ client_result' = get_template(session_id, template_type, r)
    /\ pc' = "get_template"
    /\ UNCHANGED <<user_input, chat, response, function_call,
                   function_response_content, return_value, exc, rounds,
                   dispatched, agent_failed>>
    /\ UNCHANGED <<config, output, error_reported>>

\* one call of create_template(session_id, template_type, content, status, metadata)
ClientCreateTemplate ==
    /\ pc = "client"
    /\ \E session_id \in ClientSessions, template_type \in ClientTypes,
          status \in {"draft", "active"}, metadata \in {None, "{'tags': ['x']}"},
          r \in ClientResponses :
        /\ http_log' = create_template_requests(session_id, template_type, "Done.",
                                                status, metadata, r)
        /\ http_response' = r
        /\ client_result' = create_template(r)
    /\ pc' = "create_template"
    /\ UNCHANGED <<user_input, chat, response, function_call,
                   function_response_content, return_value, exc, rounds,
                   dispatched, agent_failed>>
    /\ UNCHANGED <<config, output, error_reported>>

\* the call is over; the client keeps no state from one call to the next
ClientReturn ==
    /\ pc \in {"get_template", "create_template"}
    /\ pc' = "client"
    /\ http_log' = <<>>
    /\ http_response' = NoHttp
    /\ client_result' = NoResult
    /\ UNCHANGED <<user_input, chat, response, function_call,
                   function_response_content, return_value, exc, rounds,
                   dispatched, agent_failed>>
    /\ UNCHANGED <<config, output, error_reported>>

ClientNext == ClientGetTemplate \/ ClientCreateTemplate \/ ClientReturn

ClientSpec == ClientInit /\ [][ClientNext]_vars

-----------------------------------------------------------------------------
(* Properties *)

KnownTools == {"get_template", "create_template"}
Last(seq) == seq[Len(seq)]

\* C1: a turn that carries a tool-call request, at whatever position among
\* its parts, is handled and never finished on: respond_to_prompt heads for
\* its final text, and returns, only on a turn without any tool-call request.
C1_ToolCallTurnIsNeverFinishedOn ==
    pc \in {"final", "done"} => FunctionCalls(response) = <<>>

\* C2: dispatching a tool call whose name is neither get_template nor
\* create_template yields a failure result of kind UnknownTool and makes no
\* request to the template service.
C2_UnknownToolKind ==
    (pc = "send" /\ function_call.name \notin KnownTools) =>
        /\ "error" \in function_response_content.keys
        /\ "type" \in function_response_content.keys
        /\ function_response_content.type = "UnknownTool"
        /\ client_result = NoResult
        /\ http_response = NoHttp

\* C3: a failure raised by the template client while a tool call is dispatched
\* never leaves respond_to_prompt: the dispatch ends with a failure result
\* carrying the failure's message, the next step sends exactly that result to
\* the agent under the function's name, and the interaction awaits the reply.
C3_ClientFailureIsFedBack ==
    [][ /\ (pc = "body" /\ client_result'.kind = "raise") =>
              /\ pc' = "send"
              /\ function_response_content'.keys = {"error", "type"}
              /\ \E i \in 1..Len(function_response_content'.error) :
                    SubSeq(function_response_content'.error, i,
                           Len(function_response_content'.error)) = client_result'.msg
        /\ (pc = "send" /\ client_result.kind = "raise") =>
              /\ pc' = "awaiting"
              /\ chat' = Append(chat, FunctionResponse(function_call.name,
                                                       function_response_content))
      ]_vars

C3_Witness ==
    /\ pc = "awaiting"
    /\ client_result.kind = "raise"
    /\ client_result.cls = "ConnectionError"
    /\ function_call.name = "create_template"
    /\ Last(chat).kind = "function_response"
    /\ Last(chat).response.type = "ClientExecutionError"

\* the tag the failure result carries for each failure of the client
KindTag(cls) ==
    CASE cls = "TemplateNotFoundError" -> "TemplateNotFound"
      [] cls = "TemplateAuthenticationError" -> "AuthenticationError"
      [] cls = "TemplateAPIError" -> "APIFailure"
      [] OTHER -> "ClientExecutionError"

\* C4: the failure result prepared for, and sent to, the agent carries the
\* tag of the client's failure: NotFound as TemplateNotFound,
\* AuthenticationFailed as AuthenticationError, any other API failure as
\* APIFailure, a failure that is no API failure as ClientExecutionError.
C4_FailureKindPreserved ==
    client_result.kind = "raise" =>
        /\ function_response_content.keys = {"error", "type"}
        /\ function_response_content.type = KindTag(client_result.cls)
        /\ (pc = "awaiting" =>
               /\ Last(chat).name = function_call.name
               /\ Last(chat).response.type = KindTag(client_result.cls))

C4_Witness ==
    /\ pc = "awaiting"
    /\ client_result.cls = "TemplateNotFoundError"
    /\ Last(chat).response.type = "TemplateNotFound"
    /\ Last(chat).response.error =
           <<"No ", "handoff", " template found for session ", "M5.S4">>

\* C5: once a call to the agent has failed, the interaction is over with the
\* error raised to the caller: no text is returned, and nothing more is sent
\* in that session (the failed message is not sent again).
C5_AgentFailureIsFatal ==
    [][ agent_failed' =>
            /\ pc' \in {"raised", "input", "exited"}
            /\ exc' = "AgentError"
            /\ return_value' = None
            /\ (pc = "awaiting" => chat' = chat)
            /\ (agent_failed => chat' = chat)
      ]_vars

C5_Witness ==
    /\ pc = "raised"
    /\ agent_failed
    /\ rounds = 1
    /\ Last(chat).kind = "function_response"

\* C6: every tool-call request of a turn has been dispatched, once each and
\* in the order received, by the time the loop's answer to that turn is out.
C6_EveryRequestOfTheTurnDispatched ==
    (pc = "awaiting" /\ rounds > 0) => dispatched = FunctionCalls(response)

\* C7: a terminal reply without parts makes respond_to_prompt return the
\* fallback sentence: it does not raise and does not return anything else.
C7_EmptyReplyYieldsFallback ==
    (response = <<>> /\ pc \in {"done", "raised"} /\ ~agent_failed) =>
        (pc = "done" /\ return_value = FALLBACK)

\* C8: the value returned is the concatenation of the parts' text when there
\* is any text, the fallback sentence when there is none; it is never empty.
C8_ReturnedTextOrFallback ==
    pc = "done" =>
        /\ return_value # ""
        /\ return_value = IF JoinText(response) # "" THEN JoinText(response)
                          ELSE FALLBACK

\* C9: when no call to the agent fails, an interaction that has ended has
\* ended in Done exactly on a turn without a tool-call request: such a turn
\* always ends it in Done, and a turn that requests a tool call never does.
C9_DoneExactlyOnTurnWithoutToolCall ==
    (pc \in {"done", "raised"} /\ ~agent_failed) =>
        /\ pc = "done"
        /\ FunctionCalls(response) = <<>>

\* C10: get_template on a response with status 200 returns the decoded body,
\* with 404 raises TemplateNotFoundError, with 401 raises
\* TemplateAuthenticationError, and with any other status outside 200..299
\* raises TemplateAPIError (itself, no subclass) whose message carries the
\* status code and the raw body text.
C10_GetTemplateStatusMapping ==
    (pc = "get_template" /\ ~http_response.failed) =>
        LET status == http_response.status_code IN
        /\ status = HTTP_OK =>
              client_result = Return(Json(http_response.text))
        /\ status = HTTP_NOT_FOUND =>
              client_result.kind = "raise" /\ client_result.cls = "TemplateNotFoundError"
        /\ status = HTTP_UNAUTHORIZED =>
              /\ client_result.kind = "raise"
              /\ client_result.cls = "TemplateAuthenticationError"
        /\ (status \notin 200..299 /\ status \notin {HTTP_NOT_FOUND, HTTP_UNAUTHORIZED}) =>
              /\ client_result.kind = "raise"
              /\ client_result.cls = "TemplateAPIError"
              /\ client_result.msg[2] = ToString(status)
              /\ client_result.msg[4] = http_response.text

C10_Witness ==
    /\ pc = "get_template"
    /\ http_response.status_code = HTTP_NOT_FOUND
    /\ client_result.cls = "TemplateNotFoundError"

\* C11: create_template on a response with status 201 returns the decoded
\* body, with 401 raises TemplateAuthenticationError, and with every other
\* status (200 and 404 among them) raises TemplateAPIError (itself, no
\* subclass) whose message carries the status code and the body; it never
\* raises TemplateNotFoundError; a 401 raises TemplateAuthenticationError in
\* get_template and in create_template alike.
C11_CreateTemplateStatusMapping ==
    /\ (pc = "create_template" /\ ~http_response.failed) =>
          LET status == http_response.status_code IN
          /\ status = HTTP_CREATED =>
                client_result = Return(Json(http_response.text))
          /\ status = HTTP_UNAUTHORIZED =>
                /\ client_result.kind = "raise"
                /\ client_result.cls = "TemplateAuthenticationError"
          /\ status \notin {HTTP_CREATED, HTTP_UNAUTHORIZED} =>
                /\ client_result.kind = "raise"
                /\ client_result.cls = "TemplateAPIError"
                /\ client_result.msg[2] = ToString(status)
                /\ client_result.msg[4] = http_response.text
    /\ pc = "create_template" => client_result.cls # "TemplateNotFoundError"
    /\ (pc \in {"get_template", "create_template"} /\ ~http_response.failed
        /\ http_response.status_code = HTTP_UNAUTHORIZED) =>
          client_result.cls = "TemplateAuthenticationError"

C11_Witness ==
    /\ pc = "create_template"
    /\ http_response.status_code = HTTP_NOT_FOUND
    /\ client_result.cls = "TemplateAPIError"
    /\ client_result.msg[2] = "404"

\* the request made for the function call being handled
HandledRequest == Last(http_log)
HandlingKnown(name) == pc \in {"send", "awaiting"} /\ function_call.name = name

\* C12: the body of the request made for a create_template call has no
\* metadata key when the call's metadata is not supplied or is null, carries
\* the supplied metadata unchanged otherwise, and always has the keys
\* sessionId, type, content and status.
C12_MetadataKeyOnlyWhenPresent ==
    HandlingKnown("create_template") =>
        LET body == HandledRequest.json
            metadata == function_call.args.metadata IN
        /\ HandledRequest.method = "POST"
        /\ metadata \in {Absent, None} => body.metadata = Absent
        /\ metadata \notin {Absent, None} => body.metadata = metadata
        /\ \A k \in {"sessionId", "type", "content", "status"} : body[k] # Absent

C12_Witness ==
    /\ HandlingKnown("create_template")
    /\ function_call.args.metadata = None
    /\ HandledRequest.json.metadata = Absent
    /\ HandledRequest.json.status = "draft"

\* C13: a get_template call without template_type fetches type handoff, a
\* create_template call without status writes status draft, and a
\* template_type / status / session_id the agent supplies reaches the
\* request unchanged.
C13_OptionalArgumentsDefaulted ==
    /\ HandlingKnown("get_template") =>
          LET a == function_call.args IN
          /\ HandledRequest.method = "GET"
          /\ HandledRequest.params.type =
                (IF a.template_type = Absent THEN "handoff" ELSE a.template_type)
          /\ a.session_id # Absent =>
                HandledRequest.url = <<"/api/templates/", a.session_id>>
    /\ HandlingKnown("create_template") =>
          LET a == function_call.args IN
          /\ HandledRequest.json.status =
                (IF a.status = Absent THEN "draft" ELSE a.status)
          /\ a.session_id # Absent => HandledRequest.json.sessionId = a.session_id
          /\ a.template_type # Absent => HandledRequest.json.type = a.template_type
          /\ a.content # Absent => HandledRequest.json.content = a.content

C13_Witness ==
    /\ HandlingKnown("get_template")
    /\ function_call.args.template_type = Absent
    /\ HandledRequest.params.type = "handoff"

\* C16: one call of a client operation makes exactly one request, whatever
\* the response (no response at all included) and however the call ends: the
\* handling of a get_template or create_template call adds exactly one
\* request to those made, and no other step makes a request.
C16_OneRequestPerClientCall ==
    [][ /\ (pc = "body" /\ function_call.name \in KnownTools) =>
              /\ Len(http_log') = Len(http_log) + 1
              /\ SubSeq(http_log', 1, Len(http_log)) = http_log
              /\ Last(http_log').method =
                    (IF function_call.name = "get_template" THEN "GET" ELSE "POST")
        /\ (pc # "body" /\ pc' # "start_chat") => http_log' = http_log
      ]_vars

C16_Witness ==
    /\ pc = "send"
    /\ Len(http_log) = 2
    /\ http_response.failed
    /\ client_result.cls = "ConnectionError"

\* C19: handling a get_template or create_template call always calls the
\* client and makes its request, also when the agent left out session_id,
\* template_type or content, which then travel as None; no result for a
\* known tool is produced without a request.
C19_KnownToolAlwaysCallsClient ==
    (pc = "send" /\ function_call.name \in KnownTools) =>
        LET a == function_call.args IN
        /\ client_result.kind \in {"return", "raise"}
        /\ http_response # NoHttp
        /\ http_log # <<>>
        /\ function_call.name = "get_template" =>
              (a.session_id = Absent =>
                  HandledRequest.url = <<"/api/templates/", None>>)
        /\ function_call.name = "create_template" =>
              /\ a.session_id = Absent => HandledRequest.json.sessionId = None
              /\ a.template_type = Absent => HandledRequest.json.type = None
              /\ a.content = Absent => HandledRequest.json.content = None

C19_Witness ==
    /\ pc = "send"
    /\ function_call.name = "create_template"
    /\ function_call.args.content = Absent
    /\ HandledRequest.json.content = None
    /\ HandledRequest.json.sessionId = None
    /\ client_result.kind = "return"

C17_SessionHoldsOnlyThisInteraction ==
    /\ pc = "send_prompt" => chat = <<>>
    /\ pc \in {"awaiting", "loop", "body", "send", "final", "done"} =>
          /\ Len(chat) = 1 + (IF pc \in {"body", "send"} THEN rounds - 1 ELSE rounds)
          /\ chat[1] = TextMessage(user_input)
          /\ \A i \in 2..Len(chat) : chat[i].kind = "function_response"
    /\ pc = "raised" => Len(chat) \in {0, 1 + rounds}

C17_Witness ==
    /\ error_reported
    /\ pc = "awaiting"
    /\ rounds = 1
    /\ chat = <<TextMessage(user_input),
                FunctionResponse(function_call.name, function_response_content)>>

\* C18: the prompt loop is left only on quit or exit in any letter case, on
\* end of input, or on an interrupt; an interaction that raised is reported
\* and the program is back at the prompt; an empty line starts nothing.
C18_PromptLoopLeftOnlyOnRequest ==
    [][ /\ (pc \notin {"main", "exited"} /\ pc' = "exited") =>
              \/ pc = "input" /\ user_input' \in {"quit", "exit", "EXIT"}
                              /\ output' = <<GOODBYE>>
              \/ pc = "input" /\ user_input' = user_input /\ output' = <<GOODBYE>>
              \/ output' = <<INTERRUPTED>>
        /\ (pc = "input" /\ user_input' \in {"quit", "exit", "EXIT"}) => pc' = "exited"
        /\ pc = "raised" =>
              /\ pc' = "input"
              /\ output' = <<"An unexpected error occurred during interaction: ", exc>>
        /\ (pc = "input" /\ user_input' = "" /\ pc' # "exited") =>
              /\ pc' = "input"
              /\ UNCHANGED <<chat, http_log, rounds, output, response, return_value, exc>>
      ]_vars

C18_Witness ==
    /\ pc = "input"
    /\ error_reported
    /\ output = <<"An unexpected error occurred during interaction: ", "AgentError">>
    /\ user_input = ""

\* C20: a request to the template service is made only by the handling of a
\* get_template or create_template call and is followed by the send of its
\* result; an interaction that has handled no call has made no request; and
\* requests made are never taken back: when the agent fails later, no
\* further request is made and the ones made stay.
C20_RequestsOnlyWhileHandlingACall ==
    [][ /\ http_log' # http_log =>
              \/ pc = "input" /\ pc' = "start_chat" /\ http_log' = <<>>
              \/ /\ pc = "body" /\ pc' = "send"
                 /\ function_call.name \in KnownTools
                 /\ Len(http_log') > Len(http_log)
                 /\ SubSeq(http_log', 1, Len(http_log)) = http_log
        /\ rounds' = 0 => http_log' = <<>>
        /\ \A i \in DOMAIN http_log' : http_log'[i].method \in {"GET", "POST"}
        /\ agent_failed' => http_log' = http_log
      ]_vars

C20_Witness ==
    /\ pc = "raised"
    /\ agent_failed
    /\ Len(http_log) = 1
    /\ http_log[1].method = "POST"
    /\ client_result.kind = "return"

=============================================================================
